---------------------------- MODULE Spec2Model ----------------------------
(***************************************************************************)
(* A model of sslscan-cpp: main() builds the protocol -> cipher table,     *)
(* creates a thread pool, enqueues one scanOneHost task per host argument  *)
(* and joins the pool.  Each task resolves its host, tries the resolved    *)
(* addresses in order (createAndConnectSocket) and then walks the table.   *)
(* Expected<T> and Socket are modelled a second time as objects of their   *)
(* own (ExpectedSpec, SocketSpec), driven by every sequence of calls, and  *)
(* so is the OptionParser that main() hands its command line (ParserSpec). *)
(***************************************************************************)
EXTENDS Integers, Sequences, FiniteSets, TLC

(***************************************************************************)
(* Bounds of the model.                                                    *)
(***************************************************************************)
MaxHosts == 2
MaxThreads == 2
MaxAddrs == 3
MaxCiphers == 2
MaxMethods == 2
MaxObjs == 2
MaxFds == 2
MaxArgs == 4

(***************************************************************************)
(* Program constants.                                                      *)
(***************************************************************************)
DefaultThreads == 5

AllMethods == <<"SSLv2", "SSLv3", "TLSv1", "TLSv1.1", "TLSv1.2">>

ssl_methods ==
    {AllMethods[k] : k \in 1..(IF MaxMethods < 5 THEN MaxMethods ELSE 5)}

Hosts == 1..MaxHosts

NoFd == <<0, 0>>

(***************************************************************************)
(* The exception classes of the program and their base classes.  The last  *)
(* entry is not an exception class: it is the type of the object that      *)
(* createAndConnectSocket hands to fromException at main.cpp:240.          *)
(***************************************************************************)
Bases(k) ==
    CASE k = "AddressError" -> {"AddressError", "std::runtime_error", "std::exception"}
      [] k = "SocketError" -> {"SocketError", "std::runtime_error", "std::exception"}
      [] k = "ssl::SSLError" -> {"ssl::SSLError", "std::runtime_error", "std::exception"}
      [] k = "std::runtime_error" -> {"std::runtime_error", "std::exception"}
      [] k = "std::invalid_argument" ->
            {"std::invalid_argument", "std::logic_error", "std::exception"}
      [] k = "std::length_error" ->
            {"std::length_error", "std::logic_error", "std::exception"}
      [] k = "std::logic_error" -> {"std::logic_error", "std::exception"}
      [] k = "std::bad_alloc" -> {"std::bad_alloc", "std::exception"}
      [] OTHER -> {k}

VARIABLES
    pc,            \* position of main()
    exitCode,      \* -1 while running, else the value main() returned
    threads,       \* main()'s local "threads"
    nhosts,        \* number of positional arguments (hosts 1..nhosts)
    ciphers,       \* main()'s local map method -> cipher list
    order,         \* the methods of ciphers in the map's iteration order
    toBuild,       \* entries of ssl_methods the build loop has not visited
    nextHost,      \* next host the enqueue loop submits
    queue,         \* the pool's task queue
    idleWorkers,   \* pool workers waiting for a task
    stop,          \* the pool's stop flag
    tpc,           \* position of each host task
    addresses,     \* per task: the Expected<vector<SocketAddress>> of ResolveHost
    attempts,      \* per task: what happened to each address tried so far
    result,        \* per task: the Expected<Socket> of createAndConnectSocket
    midx,          \* per task: position of the outer probe loop in order
    cidx,          \* per task: index of the next cipher of the current method
    outcomes,      \* per task: the probe bodies executed, in order
    cerr,          \* per task: what scanOneHost wrote to std::cerr
    openFds,       \* descriptors open in the process
    ex,             \* Expected<T> objects, one per slot
    origin,        \* per slot: what a freshly built Expected was built from
    last,          \* the last call made on the Expected objects and its outcome
    leaked,        \* a branch object ended without its destructor
    badDtor,       \* a destructor ran on a branch that holds no object
    sock,          \* Socket objects, one per slot
    desc,          \* the kernel's view of each descriptor
    m_options,     \* OptionParser::m_options, the registered switches
    parseFrame     \* the call of OptionParser::Parse: its locals and outcome

mainVars == <<pc, exitCode, threads, nhosts, ciphers, order, toBuild, nextHost>>
poolVars == <<queue, idleWorkers, stop>>
connVars == <<addresses, attempts, result, openFds>>
probeVars == <<midx, cidx, outcomes>>
objVars == <<ex, origin, last, leaked, badDtor, sock, desc>>
optVars == <<m_options, parseFrame>>
progVars == <<pc, exitCode, threads, nhosts, ciphers, order, toBuild, nextHost,
              queue, idleWorkers, stop,
              tpc, addresses, attempts, result, midx, cidx, outcomes,
              cerr, openFds>>
vars == <<pc, exitCode, threads, nhosts, ciphers, order, toBuild, nextHost,
          queue, idleWorkers, stop,
          tpc, addresses, attempts, result, midx, cidx, outcomes,
          cerr, openFds, ex, origin, last, leaked, badDtor, sock, desc,
          m_options, parseFrame>>

(***************************************************************************)
(* Expected<T>                                                             *)
(***************************************************************************)
NoExpected == [set |-> FALSE, valid |-> FALSE, kind |-> "", val |-> NoFd]

ExpectedValue(v) == [set |-> TRUE, valid |-> TRUE, kind |-> "", val |-> v]

\* fromException(const E&): the stored exception object has type E.
fromException(E) == [set |-> TRUE, valid |-> FALSE, kind |-> E, val |-> NoFd]

valid(e) == e.valid

\* hasException<K>(): rethrows and reports whether a handler for K matches.
hasException(e, K) == (~e.valid) /\ K \in Bases(e.kind)

(***************************************************************************)
(* Socket                                                                  *)
(***************************************************************************)
TaskFds(i) == {fd \in openFds : fd[1] = i}

\* ~Socket(): closes the descriptor unless it is -1.
SocketDtorLeak(fds, fd) == fds

SocketDtor(fds, fd) == IF fd = NoFd THEN fds ELSE fds \ {fd}

(***************************************************************************)
(* Expected<T> as an object: the union of m_value and m_exception and the  *)
(* flag m_haveValue.  A branch is "obj" while an object lives in the       *)
(* union's storage under that member, "null" for an exception_ptr that     *)
(* holds no exception, and "none" when no object of that member exists.    *)
(* T is a movable type: MovedFrom is the value a T is left with after a    *)
(* move; Values and Failures are the ones of Expected_test.cpp.            *)
(***************************************************************************)
Objs == 1..MaxObjs

Values == {1234, 5678}

MovedFrom == 0

\* The exceptions of the tests, as <<class, what()>>.
Failures ==
    {<<"std::invalid_argument", "foo">>, <<"std::invalid_argument", "bar">>,
     <<"std::length_error", "bar">>}

ExKinds == {F[1] : F \in Failures}

\* The types a handler or a reference to one of ExKinds can name.
StaticTypes == UNION {Bases(k) : k \in ExKinds}

\* What the constructor of T raises when it fails.
TCtorError == "std::bad_alloc"

NoValue == [st |-> "none", v |-> 0]

ValueObj(v) == [st |-> "obj", v |-> v]

NoException == [st |-> "none", kind |-> "", payload |-> ""]

ExceptionPtr(k, p) == [st |-> "obj", kind |-> k, payload |-> p]

NullPtr == [st |-> "null", kind |-> "", payload |-> ""]

\* A slot that holds no Expected.
Dead ==
    [live |-> FALSE, m_haveValue |-> FALSE, m_value |-> NoValue,
     m_exception |-> NoException]

\* The outcome of a call: a returned value, a returned bool or a raise.
NoOut == [thrown |-> FALSE, kind |-> "", payload |-> "", v |-> 0, b |-> FALSE]

Returned(v) == [NoOut EXCEPT !.v = v]

Answer(b) == [NoOut EXCEPT !.b = b]

Thrown(k, p) == [NoOut EXCEPT !.thrown = TRUE, !.kind = k, !.payload = p]

\* Anything can come out of a read of a member in which no object lives.
Undefined ==
    {Returned(v) : v \in Values \cup {MovedFrom}}
        \cup {Thrown(F[1], F[2]) : F \in Failures}

\* A constructor that stores the value but leaves the flag unset.
Expected_TNoFlag(v) ==
    [live |-> TRUE, m_haveValue |-> FALSE, m_value |-> ValueObj(v),
     m_exception |-> NoException]

\* Expected(const T&) and Expected(T&&): m_value is built from rhs.
Expected_T(v) ==
    [live |-> TRUE, m_haveValue |-> TRUE, m_value |-> ValueObj(v),
     m_exception |-> NoException]

\* A copy constructor that copies the exception branch whatever the flag says.
Expected_copyExceptionOnly(rhs) ==
    [live |-> TRUE, m_haveValue |-> rhs.m_haveValue, m_value |-> NoValue,
     m_exception |-> rhs.m_exception]

\* Expected(const Expected&): the branch named by rhs's flag is copied.
Expected_copy(rhs) ==
    [live |-> TRUE, m_haveValue |-> rhs.m_haveValue,
     m_value |-> IF rhs.m_haveValue THEN rhs.m_value ELSE NoValue,
     m_exception |-> IF rhs.m_haveValue THEN NoException ELSE rhs.m_exception]

\* Expected(Expected&&): the branch named by rhs's flag is moved; rhs keeps
\* its flag and a moved-from object (mf for a T, null for an exception_ptr).
Expected_move(rhs, mf) ==
    [self |-> Expected_copy(rhs),
     rhs |-> IF rhs.m_haveValue
             THEN [rhs EXCEPT !.m_value =
                      IF @.st = "obj" THEN ValueObj(mf) ELSE @]
             ELSE [rhs EXCEPT !.m_exception =
                      IF @.st = "obj" THEN NullPtr ELSE @]]

\* ~Expected(): the destructor of the member named by the flag runs; that
\* is wrong when no object lives in that member.
Expected_dtor(x) ==
    [released |-> IF x.m_haveValue THEN "m_value" ELSE "m_exception",
     bad |-> IF x.m_haveValue THEN x.m_value.st = "none"
                              ELSE x.m_exception.st = "none"]

\* The outcomes of T(std::move(v)): the move succeeds and leaves the source
\* moved-from, or it raises and leaves the source as it was or moved-from.
TMove(v, mf) ==
    {[throws |-> FALSE, src |-> mf], [throws |-> TRUE, src |-> v],
     [throws |-> TRUE, src |-> mf]}

\* Lines 62-67, x holding a value and r an exception.  t takes r's
\* exception; the T is then built in r's storage from x's value, which ends
\* the life of r's moved-from exception_ptr without a destructor.  When
\* that constructor raises, r is left with its flag unset and no object.
\* Otherwise a copy of t is built in x's storage over the moved-from T,
\* again without a destructor, and the flags are exchanged.
Expected_swapMixed(x, r, mv) ==
    IF mv.throws
    THEN [self |-> [x EXCEPT !.m_value = ValueObj(mv.src)],
          rhs |-> [r EXCEPT !.m_exception = NoException],
          threw |-> TRUE, lost |-> 1]
    ELSE [self |-> [x EXCEPT !.m_haveValue = r.m_haveValue,
                             !.m_value = NoValue,
                             !.m_exception = r.m_exception],
          rhs |-> [r EXCEPT !.m_haveValue = x.m_haveValue,
                            !.m_value = ValueObj(x.m_value.v),
                            !.m_exception = NoException],
          threw |-> FALSE, lost |-> 2]

\* A swap whose mixed case forgets to exchange the flags (line 66).
Expected_swapNoFlags(x, r, mv) ==
    IF x.m_haveValue /\ r.m_haveValue
    THEN [self |-> [x EXCEPT !.m_value = r.m_value],
          rhs |-> [r EXCEPT !.m_value = x.m_value],
          threw |-> FALSE, lost |-> 0]
    ELSE IF x.m_haveValue
    THEN LET m == Expected_swapMixed(x, r, mv)
         IN  [m EXCEPT !.self.m_haveValue = x.m_haveValue,
                       !.rhs.m_haveValue = r.m_haveValue]
    ELSE IF r.m_haveValue
    THEN LET m == Expected_swapMixed(r, x, mv)
         IN  [self |-> [m.rhs EXCEPT !.m_haveValue = x.m_haveValue],
              rhs |-> [m.self EXCEPT !.m_haveValue = r.m_haveValue],
              threw |-> m.threw, lost |-> m.lost]
    ELSE [self |-> [x EXCEPT !.m_exception = r.m_exception],
          rhs |-> [r EXCEPT !.m_exception = x.m_exception],
          threw |-> FALSE, lost |-> 0]

\* x.swap(r), lines 57-77.  Two values are exchanged with swap(T&, T&),
\* taken not to raise; an exception on the left and a value on the right
\* is r.swap(x); two exceptions are exchanged together with the flags.
Expected_swap(x, r, mv) ==
    IF x.m_haveValue /\ r.m_haveValue
    THEN [self |-> [x EXCEPT !.m_value = r.m_value],
          rhs |-> [r EXCEPT !.m_value = x.m_value],
          threw |-> FALSE, lost |-> 0]
    ELSE IF x.m_haveValue
    THEN Expected_swapMixed(x, r, mv)
    ELSE IF r.m_haveValue
    THEN LET m == Expected_swapMixed(r, x, mv)
         IN  [self |-> m.rhs, rhs |-> m.self, threw |-> m.threw, lost |-> m.lost]
    ELSE [self |-> [x EXCEPT !.m_exception = r.m_exception,
                             !.m_haveValue = r.m_haveValue],
          rhs |-> [r EXCEPT !.m_exception = x.m_exception,
                            !.m_haveValue = x.m_haveValue],
          threw |-> FALSE, lost |-> 0]

\* fromException(std::exception_ptr p), lines 87-92.
Expected_fromException(p) ==
    [live |-> TRUE, m_haveValue |-> FALSE, m_value |-> NoValue,
     m_exception |-> p]

\* A fromException(const E&) without the typeid test: the copy made by
\* make_exception_ptr has the static type.
Expected_fromExceptionSliced(E, D, p) ==
    [threw |-> FALSE, self |-> Expected_fromException(ExceptionPtr(E, p))]

\* fromException(const E& exception), lines 80-86, called with a reference
\* of static type E to an object of dynamic type D.
Expected_fromExceptionObject(E, D, p) ==
    IF D # E
    THEN [threw |-> TRUE, self |-> Dead]
    ELSE [threw |-> FALSE, self |-> Expected_fromException(ExceptionPtr(E, p))]

\* fromException(), lines 93-95, inside a handler of the exception cur.
Expected_fromCurrent(cur) == Expected_fromException(cur)

\* valid(), lines 98-100.
Expected_valid(x) == x.m_haveValue

\* get(), lines 101-108: the possible outcomes of one call.
Expected_get(x) ==
    IF x.m_haveValue
    THEN IF x.m_value.st = "obj" THEN {Returned(x.m_value.v)} ELSE Undefined
    ELSE IF x.m_exception.st = "obj"
         THEN {Thrown(x.m_exception.kind, x.m_exception.payload)}
         ELSE Undefined

\* hasException<K>(), lines 111-120: the possible answers of one call.
Expected_hasException(x, K) ==
    IF x.m_haveValue
    THEN {FALSE}
    ELSE IF x.m_exception.st = "obj"
         THEN {K \in Bases(x.m_exception.kind)}
         ELSE BOOLEAN

\* A fromCode without the handler: what fun raises leaves fromCode.
Expected_fromCodeNoCatch(fn, throws) ==
    IF fn.raised \/ throws
    THEN [threw |-> TRUE, self |-> Dead]
    ELSE [threw |-> FALSE, self |-> Expected_T(fn.v)]

\* fromCode(fun), lines 123-130.  fn is what fun() does; throws tells
\* whether moving the returned T into the Expected raises.  Either raise
\* happens inside the try block and is caught.
Expected_fromCode(fn, throws) ==
    IF fn.raised
    THEN [threw |-> FALSE,
          self |-> Expected_fromCurrent(ExceptionPtr(fn.kind, fn.payload))]
    ELSE IF throws
    THEN [threw |-> FALSE,
          self |-> Expected_fromCurrent(ExceptionPtr(TCtorError, ""))]
    ELSE [threw |-> FALSE, self |-> Expected_T(fn.v)]

\* What a function handed to fromCode can do.
FunOutcomes ==
    {[raised |-> FALSE, kind |-> "", payload |-> "", v |-> v] : v \in Values}
        \cup {[raised |-> TRUE, kind |-> F[1], payload |-> F[2], v |-> 0] :
                 F \in Failures}

(***************************************************************************)
(* The calls made on the Expected objects.  last is the last call and its  *)
(* outcome; origin[s] is the value or the failure that the Expected in     *)
(* slot s was built from and still stands for: it follows the Expected     *)
(* through copies, moves and swaps and is forgotten when the Expected is   *)
(* moved from or a call on it raised.  For a call of fromCode, last.out    *)
(* is what the function did and last.K tells whether moving the returned   *)
(* value into the Expected raised.                                         *)
(***************************************************************************)
NoCall ==
    [op |-> "", a |-> 0, b |-> 0, K |-> "", threw |-> FALSE, out |-> NoOut,
     rep |-> FALSE]

Call(op, a, b, K, threw, out) ==
    [op |-> op, a |-> a, b |-> b, K |-> K, threw |-> threw, out |-> out,
     rep |-> (last.op = op /\ last.a = a)]

NoOrigin == [form |-> "none", v |-> 0, kind |-> "", payload |-> ""]

\* Socket objects and descriptors.
NoDescriptor == -1

Fds == 1..MaxFds

NoSocket == [live |-> FALSE, fd |-> NoDescriptor]

\* No Expected<vector<SocketAddress>> yet (or no longer).
NoAnswer == [status |-> "", n |-> 0]

NoAddresses ==
    [set |-> FALSE, valid |-> FALSE, kind |-> "", status |-> "", n |-> 0,
     gai |-> NoAnswer, freed |-> 0]

(***************************************************************************)
(* OptionParser.  A std::string is the sequence of its characters; s[k]    *)
(* of the code (0-based) is CharAt(s, k), and s[s.size()] is the           *)
(* terminator.  Positions in args are 0-based as in the code: args[k] of   *)
(* the code is f.args[k + 1] here.                                         *)
(***************************************************************************)
NUL == "NUL"

CharAt(s, k) == IF k < Len(s) THEN s[k + 1] ELSE NUL

\* The switches main() registers, in its order: -v, and -t / --threads.
SwitchNames ==
    << [shortOpt |-> <<"v">>, longOpt |-> <<>>],
       [shortOpt |-> <<"t">>,
        longOpt |-> <<"t", "h", "r", "e", "a", "d", "s">>] >>

\* The command-line words the parser is driven with.
Words ==
    { <<"-", "-">>, <<"-">>, <<"-", "v">>, <<"-", "t">>,
      <<"-", "v", "v">>, <<"-", "v", "t">>,
      <<"-", "-", "t", "h", "r", "e", "a", "d", "s">>,
      <<"h", "o", "s", "t">> }

ArgLists == UNION {[1..n -> Words] : n \in 0..MaxArgs}

\* What Parse returns: the rest of the arguments, or a failure.
NoReturn == [valid |-> FALSE, kind |-> "", what |-> <<>>, value |-> <<>>]

ReturnValue(v) == [NoReturn EXCEPT !.valid = TRUE, !.value = v]

ReturnException(kind, what) == [NoReturn EXCEPT !.kind = kind, !.what = what]

\* The locals of Parse (args, i, rest) and its outcome (ret).  calls lists
\* the callbacks invoked so far: the switch, the string passed and the
\* position in args it was taken from (-1 for none).  taken lists the
\* positions of args whose strings were put into rest, and term is the
\* position of the "--" that ended the loop (-1 for none).
NoFrame ==
    [at |-> "setup", args |-> <<>>, i |-> 0, rest |-> <<>>, taken |-> <<>>,
     calls |-> <<>>, term |-> -1, ret |-> NoReturn]

Init ==
    /\ pc = "parse"
    /\ exitCode = -1
    /\ threads = DefaultThreads
    /\ nhosts = 0
    /\ ciphers = <<>>
    /\ order = <<>>
    /\ toBuild = ssl_methods
    /\ nextHost = 1
    /\ queue = <<>>
    /\ idleWorkers = 0
    /\ stop = FALSE
    /\ tpc = [i \in Hosts |-> "none"]
    /\ addresses = [i \in Hosts |-> NoAddresses]
    /\ attempts = [i \in Hosts |-> <<>>]
    /\ result = [i \in Hosts |-> NoExpected]
    /\ midx = [i \in Hosts |-> 0]
    /\ cidx = [i \in Hosts |-> 1]
    /\ outcomes = [i \in Hosts |-> <<>>]
    /\ cerr = [i \in Hosts |-> ""]
    /\ openFds = {}
    /\ ex = [s \in Objs |-> Dead]
    /\ origin = [s \in Objs |-> NoOrigin]
    /\ last = NoCall
    /\ leaked = FALSE
    /\ badDtor = FALSE
    /\ sock = [k \in Objs |-> NoSocket]
    /\ desc = [f \in Fds |-> "unused"]
    /\ m_options = <<>>
    /\ parseFrame = NoFrame


(***************************************************************************)
(* The thread pool (ThreadPool.h): a fixed set of workers, a FIFO queue,   *)
(* and a destructor that stops the pool and joins every worker; a worker   *)
(* leaves its loop only when the pool is stopped and the queue is empty,   *)
(* so the join ends when the queue is empty and every worker is idle.      *)
(* A task runs inside a packaged task, so an exception that leaves the     *)
(* task ends that task only.                                               *)
(***************************************************************************)
ThreadPoolWorkers(n) == n

enqueue(q, t) == Append(q, t)

PoolJoined == stop /\ queue = <<>> /\ idleWorkers = ThreadPoolWorkers(threads)

\* The worker's loop after task() returned or threw: it waits again.
WorkerIdle == idleWorkers' = idleWorkers + 1

WorkerTake ==
    /\ idleWorkers > 0
    /\ queue # <<>>
    /\ idleWorkers' = idleWorkers - 1
    /\ queue' = Tail(queue)
    /\ tpc' = [tpc EXCEPT ![Head(queue)] = "resolve"]
    /\ UNCHANGED <<mainVars, stop, connVars, probeVars, cerr>>
    /\ UNCHANGED <<objVars, optVars>>

(***************************************************************************)
(* main()                                                                  *)
(***************************************************************************)
\* Lines 318-348: the parse fails (return 1), or it yields the hosts and,
\* when -t carried a number, the thread count.
Parse ==
    /\ pc = "parse"
    /\ \/ /\ pc' = "exit"
          /\ exitCode' = 1
          /\ UNCHANGED <<threads, nhosts>>
       \/ \E k \in 0..MaxHosts, t \in (1..MaxThreads) \cup {DefaultThreads} :
            /\ nhosts' = k
            /\ threads' = t
            /\ pc' = "build"
            /\ UNCHANGED exitCode
    /\ UNCHANGED <<ciphers, order, toBuild, nextHost, poolVars, tpc, connVars, probeVars, cerr>>
    /\ UNCHANGED <<objVars, optVars>>

\* What the TLS library can answer for one method: an SSLError from the
\* context or the session, or the list of ciphers, in the library's order.
getSupportedCiphers(m) ==
    {[threw |-> TRUE, list |-> <<>>]}
        \cup {[threw |-> FALSE, list |-> [j \in 1..k |-> j]] : k \in 0..MaxCiphers}

\* The map with one more entry (unordered_map::emplace of a new key).  The
\* iteration order of the map is not specified: the model iterates in the
\* order of insertion, and the build loop inserts in any order.
emplace(map, key, value) ==
    [x \in (DOMAIN map) \cup {key} |-> IF x = key THEN value ELSE map[x]]

\* A build loop whose handler swallows the SSLError and goes on.
BuildOneSkip(m) ==
    /\ pc = "build"
    /\ m \in toBuild
    /\ \E r \in getSupportedCiphers(m) :
         /\ ciphers' = IF r.threw THEN ciphers ELSE emplace(ciphers, m, r.list)
         /\ order' = IF r.threw THEN order ELSE Append(order, m)
         /\ toBuild' = toBuild \ {m}
         /\ UNCHANGED <<pc, exitCode>>
    /\ UNCHANGED <<threads, nhosts, nextHost, poolVars, tpc, connVars, probeVars, cerr>>
    /\ UNCHANGED <<objVars, optVars>>

\* Lines 355-365: one iteration of the loop over ssl_methods.
BuildOne(m) ==
    /\ pc = "build"
    /\ m \in toBuild
    /\ \E r \in getSupportedCiphers(m) :
         IF r.threw
         THEN /\ pc' = "exit"
              /\ exitCode' = 2
              /\ UNCHANGED <<ciphers, order, toBuild>>
         ELSE /\ ciphers' = emplace(ciphers, m, r.list)
              /\ order' = Append(order, m)
              /\ toBuild' = toBuild \ {m}
              /\ UNCHANGED <<pc, exitCode>>
    /\ UNCHANGED <<threads, nhosts, nextHost, poolVars, tpc, connVars, probeVars, cerr>>
    /\ UNCHANGED <<objVars, optVars>>

\* A pool created with one worker too many.
PoolCreateOff ==
    /\ pc = "build"
    /\ toBuild = {}
    /\ idleWorkers' = ThreadPoolWorkers(threads + 1)
    /\ pc' = "enqueue"
    /\ UNCHANGED <<exitCode, threads, nhosts, ciphers, order, toBuild, nextHost,
                   queue, stop, tpc, connVars, probeVars, cerr>>
    /\ UNCHANGED <<objVars, optVars>>

\* Line 373: ThreadPool pool(threads), once the build loop has ended.
PoolCreate ==
    /\ pc = "build"
    /\ toBuild = {}
    /\ idleWorkers' = ThreadPoolWorkers(threads)
    /\ pc' = "enqueue"
    /\ UNCHANGED <<exitCode, threads, nhosts, ciphers, order, toBuild, nextHost,
                   queue, stop, tpc, connVars, probeVars, cerr>>
    /\ UNCHANGED <<objVars, optVars>>

\* Lines 376-378: one iteration of the loop over the hosts.
Enqueue ==
    /\ pc = "enqueue"
    /\ nextHost <= nhosts
    /\ queue' = enqueue(queue, nextHost)
    /\ tpc' = [tpc EXCEPT ![nextHost] = "queued"]
    /\ nextHost' = nextHost + 1
    /\ UNCHANGED <<pc, exitCode, threads, nhosts, ciphers, order, toBuild,
                   idleWorkers, stop, connVars, probeVars, cerr>>
    /\ UNCHANGED <<objVars, optVars>>

\* Line 379: the pool's scope ends and its destructor starts.
PoolScopeExit ==
    /\ pc = "enqueue"
    /\ nextHost > nhosts
    /\ stop' = TRUE
    /\ pc' = "join"
    /\ UNCHANGED <<exitCode, threads, nhosts, ciphers, order, toBuild, nextHost,
                   queue, idleWorkers, tpc, connVars, probeVars, cerr>>
    /\ UNCHANGED <<objVars, optVars>>

\* "Done!" reported without waiting for the pool's destructor.
MainDoneNoJoin ==
    /\ pc = "join"
    /\ pc' = "done"
    /\ exitCode' = 0
    /\ UNCHANGED <<threads, nhosts, ciphers, order, toBuild, nextHost, poolVars,
                   tpc, connVars, probeVars, cerr>>
    /\ UNCHANGED <<objVars, optVars>>

\* Lines 379-383: the destructor has returned; "Done!" and return 0.
MainDone ==
    /\ pc = "join"
    /\ PoolJoined
    /\ pc' = "done"
    /\ exitCode' = 0
    /\ UNCHANGED <<threads, nhosts, ciphers, order, toBuild, nextHost, poolVars,
                   tpc, connVars, probeVars, cerr>>
    /\ UNCHANGED <<objVars, optVars>>

(***************************************************************************)
(* SocketAddress::ResolveHost and createAndConnectSocket                   *)
(***************************************************************************)
ExpectedAddresses == "Expected<std::vector<SocketAddress>>"

\* The statuses with which name resolution fails.
GaiErrors == {"EAI_NONAME", "EAI_AGAIN"}

\* What getaddrinfo can answer: a non-zero status and no list, or status 0
\* and a list of one or more entries (the resolver never succeeds with an
\* empty list).
getaddrinfo ==
    {[status |-> st, n |-> 0] : st \in GaiErrors}
        \cup {[status |-> "0", n |-> n] : n \in 1..MaxAddrs}

(***************************************************************************)
(* ScopeGuard: runs its function when it is destroyed, unless dismissed.   *)
(***************************************************************************)
ScopeGuard == [active |-> TRUE]

\* A move constructor that forgets to dismiss its source.
ScopeGuard_moveKeep(rhs) == [self |-> [active |-> rhs.active], rhs |-> rhs]

\* ScopeGuard(ScopeGuard&& rhs): takes over rhs's duty and dismisses rhs.
ScopeGuard_move(rhs) ==
    [self |-> [active |-> rhs.active], rhs |-> [active |-> FALSE]]

\* ~ScopeGuard(): calls is the number of calls of the function so far.
ScopeGuard_dtor(g, calls) == IF g.active THEN calls + 1 ELSE calls

\* SCOPE_EXIT { ... }: the guard made by operator+ is moved into the local
\* variable and the temporary is destroyed; the local is destroyed when its
\* scope ends.  The number of times the block has run by then.
SCOPE_EXIT ==
    LET m == ScopeGuard_move(ScopeGuard)
    IN  ScopeGuard_dtor(m.self, ScopeGuard_dtor(m.rhs, 0))

\* A ResolveHost that does not look at the status of getaddrinfo.
ResolveHostNoCheck(g) ==
    [set |-> TRUE, valid |-> TRUE, kind |-> "", status |-> "",
     n |-> Len([j \in 1..g.n |-> j]), gai |-> g,
     freed |-> IF g.n > 0 THEN SCOPE_EXIT ELSE 0]

\* Lines 112-132 on the answer g of getaddrinfo.  A non-zero status is
\* returned as AddressError(status) before the guard exists.  Otherwise the
\* guard is set up, the list is copied entry by entry into ret, and the
\* guard's block (freeaddrinfo, when the list is not null) runs on return.
\* gai and freed record the answer and the number of calls of freeaddrinfo.
ResolveHostOf(g) ==
    IF g.status # "0"
    THEN [set |-> TRUE, valid |-> FALSE, kind |-> "AddressError",
          status |-> g.status, n |-> 0, gai |-> g, freed |-> 0]
    ELSE [set |-> TRUE, valid |-> TRUE, kind |-> "", status |-> "",
          n |-> Len([j \in 1..g.n |-> j]), gai |-> g,
          freed |-> IF g.n > 0 THEN SCOPE_EXIT ELSE 0]

\* What ResolveHost can return.
ResolveHost == {ResolveHostOf(g) : g \in getaddrinfo}

\* Lines 258-260: the failure returned when the loop over the addresses ends.
CouldNotCreate == fromException("std::runtime_error")

\* The address the loop is at (1-based).
CurAddr(i) == Len(attempts[i]) + 1

\* Lines 238-241: resolve the host; a failed resolution is returned at once.
Resolve(i) ==
    /\ tpc[i] = "resolve"
    /\ \E a \in ResolveHost :
         /\ addresses' = [addresses EXCEPT ![i] = a]
         /\ IF ~valid(a)
            THEN /\ result' = [result EXCEPT ![i] = fromException(ExpectedAddresses)]
                 /\ tpc' = [tpc EXCEPT ![i] = "returned"]
            ELSE /\ tpc' = [tpc EXCEPT ![i] = "socket"]
                 /\ UNCHANGED result
    /\ UNCHANGED <<mainVars, poolVars, attempts, openFds, probeVars, cerr>>
    /\ UNCHANGED <<objVars, optVars>>

\* The catch handler's "continue" after a SocketError: the next address,
\* or the end of the loop.
Continue(i) ==
    /\ attempts' = [attempts EXCEPT ![i] = Append(@, "failed")]
    /\ IF CurAddr(i) < addresses[i].n
       THEN /\ tpc' = [tpc EXCEPT ![i] = "socket"]
            /\ UNCHANGED result
       ELSE /\ tpc' = [tpc EXCEPT ![i] = "returned"]
            /\ result' = [result EXCEPT ![i] = CouldNotCreate]

\* Line 246: Socket sock(addr); socket() gives a descriptor or fails.
SocketCreate(i) ==
    /\ tpc[i] = "socket"
    /\ \/ /\ openFds' = openFds \cup {<<i, CurAddr(i)>>}
          /\ tpc' = [tpc EXCEPT ![i] = "connect"]
          /\ UNCHANGED <<attempts, result>>
       \/ /\ Continue(i)
          /\ UNCHANGED openFds
    /\ UNCHANGED <<mainVars, poolVars, addresses, probeVars, cerr>>
    /\ UNCHANGED <<objVars, optVars>>

\* A loop that goes on to the next address after a successful connect.
ConnectNoReturn(i) ==
    /\ tpc[i] = "connect"
    /\ \/ /\ attempts' = [attempts EXCEPT ![i] = Append(@, "ok")]
          /\ result' = [result EXCEPT ![i] = ExpectedValue(<<i, CurAddr(i)>>)]
          /\ tpc' = [tpc EXCEPT ![i] =
                        IF CurAddr(i) < addresses[i].n THEN "socket" ELSE "returned"]
          /\ UNCHANGED openFds
       \/ /\ openFds' = SocketDtor(openFds, <<i, CurAddr(i)>>)
          /\ Continue(i)
    /\ UNCHANGED <<mainVars, poolVars, addresses, probeVars, cerr>>
    /\ UNCHANGED <<objVars, optVars>>

\* Lines 248-255: sock.Connect(addr).  On success the socket is moved into
\* the returned Expected (the local is left with -1); on failure the
\* SocketError unwinds through ~Socket, which closes the descriptor,
\* before the handler continues.
Connect(i) ==
    /\ tpc[i] = "connect"
    /\ \/ /\ attempts' = [attempts EXCEPT ![i] = Append(@, "ok")]
          /\ result' = [result EXCEPT ![i] = ExpectedValue(<<i, CurAddr(i)>>)]
          /\ tpc' = [tpc EXCEPT ![i] = "returned"]
          /\ openFds' = SocketDtor(openFds, NoFd)
       \/ /\ openFds' = SocketDtor(openFds, <<i, CurAddr(i)>>)
          /\ Continue(i)
    /\ UNCHANGED <<mainVars, poolVars, addresses, probeVars, cerr>>
    /\ UNCHANGED <<objVars, optVars>>

(***************************************************************************)
(* scanOneHost.  In the state "returned" the call at line 269 has produced *)
(* its Expected<Socket> and the locals of createAndConnectSocket (the      *)
(* addresses and the loop position) still show what they held on return;   *)
(* they are gone once scanOneHost has gone on.                             *)
(***************************************************************************)
FrameDropped(i) ==
    /\ addresses' = [addresses EXCEPT ![i] = NoAddresses]
    /\ attempts' = [attempts EXCEPT ![i] = <<>>]

\* A check with the condition inverted.
CheckValidInverted(i) ==
    /\ tpc[i] = "returned"
    /\ FrameDropped(i)
    /\ IF valid(result[i])
       THEN /\ cerr' = [cerr EXCEPT ![i] = "Error connecting"]
            /\ tpc' = [tpc EXCEPT ![i] = "finished"]
            /\ openFds' = SocketDtor(openFds, result[i].val)
            /\ WorkerIdle
       ELSE /\ tpc' = [tpc EXCEPT ![i] = "probe"]
            /\ UNCHANGED <<cerr, openFds, idleWorkers>>
    /\ UNCHANGED <<mainVars, queue, stop, result, probeVars>>
    /\ UNCHANGED <<objVars, optVars>>

\* A handler that ends the whole process when the connection failed.
CheckValidAbort(i) ==
    /\ tpc[i] = "returned"
    /\ FrameDropped(i)
    /\ IF ~valid(result[i])
       THEN /\ cerr' = [cerr EXCEPT ![i] = "Error connecting"]
            /\ tpc' = [tpc EXCEPT ![i] = "finished"]
            /\ pc' = "exit"
            /\ exitCode' = 1
            /\ UNCHANGED <<openFds, idleWorkers>>
       ELSE /\ tpc' = [tpc EXCEPT ![i] = "probe"]
            /\ UNCHANGED <<cerr, openFds, idleWorkers, pc, exitCode>>
    /\ UNCHANGED <<threads, nhosts, ciphers, order, toBuild, nextHost, queue,
                   stop, result, probeVars>>
    /\ UNCHANGED <<objVars, optVars>>

\* Lines 269-274: a failed connection is reported and ends the task (the
\* Expected is destroyed on the way out); otherwise the probe loops start.
CheckValid(i) ==
    /\ tpc[i] = "returned"
    /\ FrameDropped(i)
    /\ IF ~valid(result[i])
       THEN /\ cerr' = [cerr EXCEPT ![i] = "Error connecting"]
            /\ tpc' = [tpc EXCEPT ![i] = "finished"]
            /\ openFds' = SocketDtor(openFds, result[i].val)
            /\ WorkerIdle
       ELSE /\ tpc' = [tpc EXCEPT ![i] = "probe"]
            /\ UNCHANGED <<cerr, openFds, idleWorkers>>
    /\ UNCHANGED <<mainVars, queue, stop, result, probeVars>>
    /\ UNCHANGED <<objVars, optVars>>

\* The method of the outer loop's current iteration.
CurMethod(i) == order[midx[i]]

\* The inner loop over the ciphers of the current method has ended (or the
\* outer loop has not begun).
InnerDone(i) ==
    IF midx[i] = 0 THEN TRUE ELSE cidx[i] > Len(ciphers[CurMethod(i)])

\* Line 282: the outer loop takes the next entry of the map.
NextMethod(i) ==
    /\ tpc[i] = "probe"
    /\ InnerDone(i)
    /\ midx[i] < Len(order)
    /\ midx' = [midx EXCEPT ![i] = @ + 1]
    /\ cidx' = [cidx EXCEPT ![i] = 1]
    /\ UNCHANGED <<mainVars, poolVars, tpc, connVars, outcomes, cerr>>
    /\ UNCHANGED <<objVars, optVars>>

\* A probe that drops the cipher it has tried from the shared table.
ProbeErase(i) ==
    /\ tpc[i] = "probe"
    /\ ~InnerDone(i)
    /\ outcomes' = [outcomes EXCEPT ![i] =
          Append(@, [method |-> CurMethod(i),
                     cipher |-> ciphers[CurMethod(i)][cidx[i]], ok |-> TRUE])]
    /\ ciphers' = [ciphers EXCEPT ![CurMethod(i)] =
          [j \in 1..(Len(@) - 1) |-> IF j < cidx[i] THEN @[j] ELSE @[j + 1]]]
    /\ UNCHANGED <<pc, exitCode, threads, nhosts, order, toBuild, nextHost,
                   poolVars, tpc, connVars, midx, cidx, cerr>>
    /\ UNCHANGED <<objVars, optVars>>

\* Lines 283-296: the body of the inner loop for one cipher.  The context
\* or the session may fail to construct; the SSLError is not caught in
\* scanOneHost, so it leaves the task, destroying the Expected<Socket>.
Probe(i) ==
    /\ tpc[i] = "probe"
    /\ ~InnerDone(i)
    /\ \E ok \in BOOLEAN :
         /\ outcomes' = [outcomes EXCEPT ![i] =
               Append(@, [method |-> CurMethod(i),
                          cipher |-> ciphers[CurMethod(i)][cidx[i]], ok |-> ok])]
         /\ IF ok
            THEN /\ cidx' = [cidx EXCEPT ![i] = @ + 1]
                 /\ UNCHANGED <<tpc, openFds, idleWorkers>>
            ELSE /\ tpc' = [tpc EXCEPT ![i] = "threw"]
                 /\ openFds' = SocketDtor(openFds, result[i].val)
                 /\ WorkerIdle
                 /\ UNCHANGED cidx
    /\ UNCHANGED <<mainVars, queue, stop, addresses, attempts, result, midx, cerr>>
    /\ UNCHANGED <<objVars, optVars>>

\* Lines 297-298: both loops have ended; the Expected<Socket> is destroyed.
ScanReturn(i) ==
    /\ tpc[i] = "probe"
    /\ InnerDone(i)
    /\ midx[i] = Len(order)
    /\ tpc' = [tpc EXCEPT ![i] = "finished"]
    /\ openFds' = SocketDtor(openFds, result[i].val)
    /\ WorkerIdle
    /\ UNCHANGED <<mainVars, queue, stop, addresses, attempts, result,
                   probeVars, cerr>>
    /\ UNCHANGED <<objVars, optVars>>

\* The steps whose effect does not depend on an answer from outside.
Steps ==
    \/ PoolCreate
    \/ Enqueue
    \/ PoolScopeExit
    \/ MainDone
    \/ WorkerTake
    \/ \E i \in Hosts : SocketCreate(i)
    \/ \E i \in Hosts : Connect(i)
    \/ \E i \in Hosts : CheckValid(i)
    \/ \E i \in Hosts : NextMethod(i)
    \/ \E i \in Hosts : Probe(i)
    \/ \E i \in Hosts : ScanReturn(i)

Next ==
    \/ Parse
    \/ \E m \in ssl_methods : BuildOne(m)
    \/ \E i \in Hosts : Resolve(i)
    \/ Steps

Spec == Init /\ [][Next]_vars

(***************************************************************************)
(* The same program under two restrictions of its inputs, which keep the   *)
(* state space small where a property does not depend on them.             *)
(*   HostSpec: at most one host argument; any resolver and library answer. *)
(*   PoolSpec: any number of hosts; the resolver yields one address and    *)
(*             the library at most one cipher per method.                  *)
(***************************************************************************)
OneHost == nhosts <= 1

SmallAnswers ==
    /\ \A i \in Hosts : addresses[i].n <= 1
    /\ \A m \in DOMAIN ciphers : Len(ciphers[m]) <= 1

ParseOneHost == Parse /\ OneHost'

BuildOneSmall(m) == BuildOne(m) /\ SmallAnswers'

ResolveSmall(i) == Resolve(i) /\ SmallAnswers'

HostNext ==
    \/ ParseOneHost
    \/ \E m \in ssl_methods : BuildOne(m)
    \/ \E i \in Hosts : Resolve(i)
    \/ Steps

PoolNext ==
    \/ Parse
    \/ \E m \in ssl_methods : BuildOneSmall(m)
    \/ \E i \in Hosts : ResolveSmall(i)
    \/ Steps

HostSpec == Init /\ [][HostNext]_vars

PoolSpec == Init /\ [][PoolNext]_vars

\* Expected<T> x(v) or Expected<T> x(std::move(v)) in a free slot.
Construct(s) ==
    /\ ~ex[s].live
    /\ \E v \in Values, how \in {"copy", "move"}, throws \in BOOLEAN :
         IF throws
         THEN /\ last' = Call("Expected", s, 0, how, TRUE, Thrown(TCtorError, ""))
              /\ UNCHANGED <<ex, origin>>
         ELSE /\ ex' = [ex EXCEPT ![s] = Expected_T(v)]
              /\ origin' = [origin EXCEPT ![s] =
                    [NoOrigin EXCEPT !.form = "value", !.v = v]]
              /\ last' = Call("Expected", s, 0, how, FALSE, NoOut)
    /\ UNCHANGED <<leaked, badDtor, sock, desc, progVars, optVars>>

\* Expected<T> d(ex[s]).
CopyConstruct(d, s) ==
    /\ d # s
    /\ ~ex[d].live
    /\ ex[s].live
    /\ ex' = [ex EXCEPT ![d] = Expected_copy(ex[s])]
    /\ origin' = [origin EXCEPT ![d] = origin[s]]
    /\ last' = Call("copy", d, s, "", FALSE, NoOut)
    /\ UNCHANGED <<leaked, badDtor, sock, desc, progVars, optVars>>

\* Expected<T> d(std::move(ex[s])).
MoveConstruct(d, s) ==
    /\ d # s
    /\ ~ex[d].live
    /\ ex[s].live
    /\ LET m == Expected_move(ex[s], MovedFrom)
       IN  ex' = [ex EXCEPT ![d] = m.self, ![s] = m.rhs]
    /\ origin' = [origin EXCEPT ![d] = origin[s], ![s] = NoOrigin]
    /\ last' = Call("move", d, s, "", FALSE, NoOut)
    /\ UNCHANGED <<leaked, badDtor, sock, desc, progVars, optVars>>

\* The Expected in slot s goes out of scope.
Destroy(s) ==
    /\ ex[s].live
    /\ badDtor' = (badDtor \/ Expected_dtor(ex[s]).bad)
    /\ ex' = [ex EXCEPT ![s] = Dead]
    /\ origin' = [origin EXCEPT ![s] = NoOrigin]
    /\ last' = Call("~Expected", s, 0, "", FALSE, NoOut)
    /\ UNCHANGED <<leaked, sock, desc, progVars, optVars>>

\* ex[a].swap(ex[b]).
Swap(a, b) ==
    /\ a # b
    /\ ex[a].live
    /\ ex[b].live
    /\ \E mv \in TMove(IF ex[a].m_haveValue THEN ex[a].m_value.v ELSE ex[b].m_value.v,
                       MovedFrom) :
         LET r == Expected_swap(ex[a], ex[b], mv)
         IN  /\ ex' = [ex EXCEPT ![a] = r.self, ![b] = r.rhs]
             /\ leaked' = (leaked \/ r.lost > 0)
             /\ last' = Call("swap", a, b, "", r.threw,
                             IF r.threw THEN Thrown(TCtorError, "") ELSE NoOut)
             /\ origin' = IF r.threw
                          THEN [origin EXCEPT ![a] = NoOrigin, ![b] = NoOrigin]
                          ELSE [origin EXCEPT ![a] = origin[b], ![b] = origin[a]]
    /\ UNCHANGED <<badDtor, sock, desc, progVars, optVars>>

\* Expected<T>::fromException in its three forms: from an exception object
\* (through a reference whose static type E is the object's type D or one
\* of its bases), from an exception_ptr, and from the exception in flight.
FromException(s) ==
    /\ ~ex[s].live
    /\ \E form \in {"object", "handle", "current"}, F \in Failures,
          E \in StaticTypes :
       LET D == F[1]
           p == F[2]
       IN
         /\ E \in Bases(D)
         /\ form # "object" => E = D
         /\ LET r == IF form = "object"
                     THEN Expected_fromExceptionObject(E, D, p)
                     ELSE IF form = "handle"
                     THEN [threw |-> FALSE,
                           self |-> Expected_fromException(ExceptionPtr(D, p))]
                     ELSE [threw |-> FALSE,
                           self |-> Expected_fromCurrent(ExceptionPtr(D, p))]
            IN  /\ ex' = [ex EXCEPT ![s] = r.self]
                /\ origin' = [origin EXCEPT ![s] =
                      IF r.threw THEN NoOrigin
                      ELSE [NoOrigin EXCEPT !.form = "failure",
                                            !.kind = D, !.payload = p]]
                /\ last' = Call(form, s, 0, E, r.threw,
                                IF r.threw
                                THEN Thrown("std::invalid_argument", "slicing detected")
                                ELSE NoOut)
    /\ UNCHANGED <<leaked, badDtor, sock, desc, progVars, optVars>>

\* Expected<T>::fromCode(fun) into a free slot.
FromCode(s) ==
    /\ ~ex[s].live
    /\ \E fn \in FunOutcomes, throws \in BOOLEAN :
         /\ fn.raised => ~throws
         /\ LET r == Expected_fromCode(fn, throws)
            IN  /\ ex' = [ex EXCEPT ![s] = r.self]
                /\ origin' = [origin EXCEPT ![s] =
                      IF fn.raised
                      THEN [NoOrigin EXCEPT !.form = "failure", !.kind = fn.kind,
                                            !.payload = fn.payload]
                      ELSE IF throws THEN NoOrigin
                      ELSE [NoOrigin EXCEPT !.form = "value", !.v = fn.v]]
                /\ last' = Call("fromCode", s, 0,
                                IF throws THEN "move raised" ELSE "", r.threw,
                                IF fn.raised THEN Thrown(fn.kind, fn.payload)
                                             ELSE Returned(fn.v))
    /\ UNCHANGED <<leaked, badDtor, sock, desc, progVars, optVars>>

\* ex[s].get().
Get(s) ==
    /\ ex[s].live
    /\ \E o \in Expected_get(ex[s]) :
         last' = Call("get", s, 0, "", o.thrown, o)
    /\ UNCHANGED <<ex, origin, leaked, badDtor, sock, desc, progVars, optVars>>

\* ex[s].hasException<K>().
HasException(s, K) ==
    /\ ex[s].live
    /\ \E b \in Expected_hasException(ex[s], K) :
         last' = Call("hasException", s, 0, K, FALSE, Answer(b))
    /\ UNCHANGED <<ex, origin, leaked, badDtor, sock, desc, progVars, optVars>>

ExpectedNext ==
    \/ \E s \in Objs : Construct(s)
    \/ \E d, s \in Objs : CopyConstruct(d, s)
    \/ \E d, s \in Objs : MoveConstruct(d, s)
    \/ \E s \in Objs : Destroy(s)
    \/ \E a, b \in Objs : Swap(a, b)
    \/ \E s \in Objs : FromException(s)
    \/ \E s \in Objs : FromCode(s)
    \/ \E s \in Objs : Get(s)
    \/ \E s \in Objs, K \in StaticTypes : HasException(s, K)

ExpectedSpec == Init /\ [][ExpectedNext]_vars

(***************************************************************************)
(* Socket as an object, alone and inside an Expected<Socket>.  desc is the *)
(* kernel's view of each descriptor: "unused", "open", "closed", or        *)
(* "misused" once close() was called on a descriptor that was not open.    *)
(***************************************************************************)
close(d, fd) ==
    [d EXCEPT ![fd] = IF @ = "open" THEN "closed" ELSE "misused"]

\* What socket() can return: -1, or a descriptor that is not in use.
socket ==
    LET free == {f \in Fds : desc[f] = "unused"}
    IN  {NoDescriptor} \cup
            (IF free = {} THEN {} ELSE {CHOOSE f \in free : \A g \in free : f <= g})

\* A move constructor that copies the descriptor and leaves other as it is.
Socket_moveCopy(other) == [self |-> other, other |-> other]

\* Socket(Socket&& other): starts from -1 and swaps with other.
Socket_move(other) == [self |-> other, other |-> NoDescriptor]

\* ~Socket().
Socket_dtor(d, fd) == IF fd # NoDescriptor THEN close(d, fd) ELSE d

\* operator=(Socket&& other); same tells whether this is other.
Socket_assign(d, self, other, same) ==
    IF same
    THEN [d |-> d, self |-> self, other |-> other]
    ELSE [d |-> IF self # NoDescriptor THEN close(d, self) ELSE d,
          self |-> other, other |-> NoDescriptor]

\* std::swap(x, y) on two Sockets: Socket tmp(std::move(x)); x =
\* std::move(y); y = std::move(tmp); and tmp is destroyed.
Socket_swap(d, x, y) ==
    LET t == Socket_move(x)
        a1 == Socket_assign(d, t.other, y, FALSE)
        a2 == Socket_assign(a1.d, a1.other, t.self, FALSE)
    IN  [d |-> Socket_dtor(a2.d, a2.other), x |-> a1.self, y |-> a2.self]

\* Socket k(addr): socket() fails and SocketError leaves the constructor,
\* or the object owns the new descriptor.
SockCreate(k) ==
    /\ ~sock[k].live
    /\ \E r \in socket :
         IF r = NoDescriptor
         THEN UNCHANGED <<sock, desc>>
         ELSE /\ sock' = [sock EXCEPT ![k] = [live |-> TRUE, fd |-> r]]
              /\ desc' = [desc EXCEPT ![r] = "open"]
    /\ UNCHANGED <<ex, origin, last, leaked, badDtor, progVars, optVars>>

\* Socket k2(std::move(k1)).
SockMoveCtor(k2, k1) ==
    /\ k2 # k1
    /\ ~sock[k2].live
    /\ sock[k1].live
    /\ LET m == Socket_move(sock[k1].fd)
       IN  sock' = [sock EXCEPT ![k2] = [live |-> TRUE, fd |-> m.self],
                                ![k1].fd = m.other]
    /\ UNCHANGED <<desc, ex, origin, last, leaked, badDtor, progVars, optVars>>

\* k2 = std::move(k1), k2 = std::move(k2) included.
SockAssign(k2, k1) ==
    /\ sock[k2].live
    /\ sock[k1].live
    /\ LET m == Socket_assign(desc, sock[k2].fd, sock[k1].fd, k2 = k1)
       IN  /\ sock' = IF k2 = k1 THEN [sock EXCEPT ![k2].fd = m.self]
                      ELSE [sock EXCEPT ![k2].fd = m.self, ![k1].fd = m.other]
           /\ desc' = m.d
    /\ UNCHANGED <<ex, origin, last, leaked, badDtor, progVars, optVars>>

\* The Socket in slot k goes out of scope.
SockDestroy(k) ==
    /\ sock[k].live
    /\ desc' = Socket_dtor(desc, sock[k].fd)
    /\ sock' = [sock EXCEPT ![k] = NoSocket]
    /\ UNCHANGED <<ex, origin, last, leaked, badDtor, progVars, optVars>>

\* Expected<Socket> s(std::move(k)), as at main.cpp:249.
Wrap(s, k) ==
    /\ ~ex[s].live
    /\ sock[k].live
    /\ LET m == Socket_move(sock[k].fd)
       IN  /\ ex' = [ex EXCEPT ![s] = Expected_T(m.self)]
           /\ sock' = [sock EXCEPT ![k].fd = m.other]
    /\ UNCHANGED <<desc, origin, last, leaked, badDtor, progVars, optVars>>

\* Socket k(std::move(ex[s].get())) on a valid Expected<Socket>.
Unwrap(k, s) ==
    /\ ~sock[k].live
    /\ ex[s].live
    /\ ex[s].m_haveValue
    /\ LET m == Socket_move(ex[s].m_value.v)
       IN  /\ sock' = [sock EXCEPT ![k] = [live |-> TRUE, fd |-> m.self]]
           /\ ex' = [ex EXCEPT ![s].m_value.v = m.other]
    /\ UNCHANGED <<desc, origin, last, leaked, badDtor, progVars, optVars>>

\* Expected<Socket>::fromException(SocketError()) into a free slot.
EFail(s) ==
    /\ ~ex[s].live
    /\ ex' = [ex EXCEPT ![s] = Expected_fromException(ExceptionPtr("SocketError", ""))]
    /\ UNCHANGED <<sock, desc, origin, last, leaked, badDtor, progVars, optVars>>

\* Expected<Socket> d(std::move(ex[s])).
EMove(d, s) ==
    /\ d # s
    /\ ~ex[d].live
    /\ ex[s].live
    /\ LET m == Expected_move(ex[s], Socket_move(ex[s].m_value.v).other)
       IN  ex' = [ex EXCEPT ![d] = m.self, ![s] = m.rhs]
    /\ UNCHANGED <<sock, desc, origin, last, leaked, badDtor, progVars, optVars>>

\* ex[a].swap(ex[b]) on two Expected<Socket>.  Socket's move constructor
\* does not raise.
ESwap(a, b) ==
    /\ a # b
    /\ ex[a].live
    /\ ex[b].live
    /\ IF ex[a].m_haveValue /\ ex[b].m_haveValue
       THEN LET w == Socket_swap(desc, ex[a].m_value.v, ex[b].m_value.v)
            IN  /\ ex' = [ex EXCEPT ![a].m_value.v = w.x, ![b].m_value.v = w.y]
                /\ desc' = w.d
                /\ UNCHANGED leaked
       ELSE LET r == Expected_swap(ex[a], ex[b],
                        [throws |-> FALSE, src |-> NoDescriptor])
            IN  /\ ex' = [ex EXCEPT ![a] = r.self, ![b] = r.rhs]
                /\ leaked' = (leaked \/ r.lost > 0)
                /\ UNCHANGED desc
    /\ UNCHANGED <<sock, origin, last, badDtor, progVars, optVars>>

\* The Expected<Socket> in slot s goes out of scope: ~Socket() runs when
\* the flag names the value.
EDestroy(s) ==
    /\ ex[s].live
    /\ desc' = IF ex[s].m_haveValue THEN Socket_dtor(desc, ex[s].m_value.v) ELSE desc
    /\ ex' = [ex EXCEPT ![s] = Dead]
    /\ UNCHANGED <<sock, origin, last, leaked, badDtor, progVars, optVars>>

SocketNext ==
    \/ \E k \in Objs : SockCreate(k)
    \/ \E k2, k1 \in Objs : SockMoveCtor(k2, k1)
    \/ \E k2, k1 \in Objs : SockAssign(k2, k1)
    \/ \E k \in Objs : SockDestroy(k)
    \/ \E s, k \in Objs : Wrap(s, k)
    \/ \E k, s \in Objs : Unwrap(k, s)
    \/ \E s \in Objs : EFail(s)
    \/ \E d, s \in Objs : EMove(d, s)
    \/ \E a, b \in Objs : ESwap(a, b)
    \/ \E s \in Objs : EDestroy(s)

SocketSpec == Init /\ [][SocketNext]_vars

(***************************************************************************)
(* The scan when the network may stay silent: getaddrinfo and connect are  *)
(* blocking calls without a timeout, so nothing in the program makes       *)
(* Resolve or Connect happen; every other step is a step of the program    *)
(* itself and is taken sooner or later.                                    *)
(***************************************************************************)
Local ==
    \/ Parse
    \/ \E m \in ssl_methods : BuildOneSmall(m)
    \/ PoolCreate
    \/ Enqueue
    \/ PoolScopeExit
    \/ MainDone
    \/ WorkerTake
    \/ \E i \in Hosts : SocketCreate(i)
    \/ \E i \in Hosts : CheckValid(i)
    \/ \E i \in Hosts : NextMethod(i)
    \/ \E i \in Hosts : Probe(i)
    \/ \E i \in Hosts : ScanReturn(i)

LiveSpec == Init /\ [][PoolNext]_vars /\ WF_vars(Local)

(***************************************************************************)
(* OptionSwitch.  The constructor initialises the two names only: the two  *)
(* bool members hold whatever the memory held until SetParameter or        *)
(* SetParameterOptional assigns them, so a read before that gives either   *)
(* value.  parameterSet remembers whether SetParameter was called.         *)
(***************************************************************************)
Indeterminate == BOOLEAN

OptionSwitch(shortOpt, longOpt) ==
    {[m_shortOpt |-> shortOpt, m_longOpt |-> longOpt, m_hasParameter |-> h,
      m_parameterOptional |-> o, parameterSet |-> FALSE] : h, o \in Indeterminate}

SetParameter(o, param) ==
    [o EXCEPT !.m_hasParameter = param, !.parameterSet = TRUE]

SetParameterOptional(o, opt) == [o EXCEPT !.m_parameterOptional = opt]

HasShortOpt(o) == Len(o.m_shortOpt) > 0

HasLongOpt(o) == Len(o.m_longOpt) > 0

HasParameter(o) == o.m_hasParameter

ParamOptional(o) == o.m_parameterOptional

\* The callback of switch k is invoked with arg, taken from position from.
CallCallback(f, k, arg, from) ==
    [f EXCEPT !.calls = Append(@, [opt |-> k, arg |-> arg, from |-> from])]

\* The setter chains a registration is followed by: none (as for -v at
\* main.cpp:320), or SetParameter alone or followed by SetParameterOptional
\* (as for -t at main.cpp:323-325).
Chains == {"", "SetParameter(false)", "SetParameter(true).SetParameterOptional(false)",
           "SetParameter(true).SetParameterOptional(true)"}

Chain(c, o) ==
    CASE c = "" -> o
      [] c = "SetParameter(false)" -> SetParameter(o, FALSE)
      [] c = "SetParameter(true).SetParameterOptional(false)" ->
            SetParameterOptional(SetParameter(o, TRUE), FALSE)
      [] c = "SetParameter(true).SetParameterOptional(true)" ->
            SetParameterOptional(SetParameter(o, TRUE), TRUE)

\* The first of the switches S of m_options (by position), 0 when S is
\* empty: the loops "for( auto opt : m_options )" break at the first match.
FirstOption(S) ==
    IF S = {} THEN 0 ELSE CHOOSE k \in S : \A l \in S : k <= l

FindShort(ch) ==
    FirstOption({k \in 1..Len(m_options) :
                    HasShortOpt(m_options[k]) /\ m_options[k].m_shortOpt[1] = ch})

\* curr.compare(2, curr.size() - 2, opt.LongOpt()) == 0.
FindLong(curr) ==
    FirstOption({k \in 1..Len(m_options) :
                    /\ HasLongOpt(m_options[k])
                    /\ SubSeq(curr, 3, Len(curr)) = m_options[k].m_longOpt})

\* A parseArgument that passes the next argument without stepping over it.
parseArgumentNoStep(f, k) ==
    LET arg == m_options[k]
    IN  IF HasParameter(arg)
        THEN IF f.i + 1 < Len(f.args)
             THEN [threw |-> FALSE,
                   f |-> CallCallback(f, k, f.args[f.i + 2], f.i + 1)]
             ELSE IF ParamOptional(arg)
             THEN [threw |-> FALSE, f |-> CallCallback(f, k, <<>>, -1)]
             ELSE [threw |-> TRUE, f |-> f]
        ELSE [threw |-> FALSE, f |-> CallCallback(f, k, <<>>, -1)]

\* The lambda parseArgument (lines 183-201) on switch k: threw tells
\* whether it raised MissingArgumentError.
parseArgument(f, k) ==
    LET arg == m_options[k]
    IN  IF HasParameter(arg)
        THEN IF f.i + 1 < Len(f.args)
             THEN [threw |-> FALSE,
                   f |-> CallCallback([f EXCEPT !.i = f.i + 1], k,
                                      f.args[f.i + 2], f.i + 1)]
             ELSE IF ParamOptional(arg)
             THEN [threw |-> FALSE, f |-> CallCallback(f, k, <<>>, -1)]
             ELSE [threw |-> TRUE, f |-> f]
        ELSE [threw |-> FALSE, f |-> CallCallback(f, k, <<>>, -1)]

\* "return Expected<...>::fromException(E(what))" out of the loop.
ParseFails(f, kind, what) ==
    [f EXCEPT !.at = "returned", !.ret = ReturnException(kind, what)]

\* The i++ of the loop at line 203 and its test.
NextArgument(f) ==
    [f EXCEPT !.i = f.i + 1,
              !.at = IF f.i + 1 < Len(f.args) THEN "loop" ELSE "tail"]

\* Lines 222-240 and 249-265: the switch found is handed to parseArgument;
\* k = 0 when no registered switch matched.
ParseSwitch(f, k) ==
    IF k = 0
    THEN ParseFails(f, "InvalidSwitchError", f.args[f.i + 1])
    ELSE LET r == parseArgument(f, k)
         IN  IF r.threw
             THEN ParseFails(f, "MissingArgumentError", f.args[f.i + 1])
             ELSE NextArgument(r.f)

\* temp_buff = {'-', ch, '\0'} read as a C string.
TempBuff(ch) == IF ch = NUL THEN <<"-">> ELSE <<"-", ch>>

\* Lines 268-298 from j on: the loop over the characters of curr.
RECURSIVE ParseGroup(_, _)
ParseGroup(f, j) ==
    LET curr == f.args[f.i + 1]
        ch == CharAt(curr, 1 + j)
        k == FindShort(ch)
    IN  IF ~(j < Len(curr))
        THEN NextArgument(f)
        ELSE IF k = 0
        THEN ParseFails(f, "InvalidSwitchError", TempBuff(ch))
        ELSE IF HasParameter(m_options[k])
        THEN ParseFails(f, "InvalidPositionError", TempBuff(ch))
        ELSE LET r == parseArgument(f, k)
             IN  IF r.threw
                 THEN ParseFails(f, "MissingArgumentError", curr)
                 ELSE ParseGroup(r.f, j + 1)

\* The argument the loop is at.
Curr == parseFrame.args[parseFrame.i + 1]

InLoop == parseFrame.at = "loop" /\ parseFrame.i < Len(parseFrame.args)

IsSwitch(curr) == Len(curr) > 0 /\ curr[1] = "-"

\* parser.On(shortOpt, longOpt) followed by one of the setter chains.
On ==
    /\ parseFrame.at = "setup"
    /\ Len(m_options) < Len(SwitchNames)
    /\ LET name == SwitchNames[Len(m_options) + 1]
       IN  \E c \in Chains, o \in OptionSwitch(name.shortOpt, name.longOpt) :
              m_options' = Append(m_options, Chain(c, o))
    /\ UNCHANGED <<parseFrame, progVars, objVars>>

\* parser.Parse(argc, argv): args is argv without the program's name.
ParseCall ==
    /\ parseFrame.at = "setup"
    /\ \E a \in ArgLists :
          parseFrame' = [NoFrame EXCEPT !.args = a,
                                        !.at = IF 0 < Len(a) THEN "loop" ELSE "tail"]
    /\ UNCHANGED <<m_options, progVars, objVars>>

\* Lines 206-210: "--" ends the loop; i is moved past it.
EndOfSwitches ==
    /\ InLoop
    /\ Curr = <<"-", "-">>
    /\ parseFrame' = [parseFrame EXCEPT !.i = @ + 1, !.at = "tail",
                                        !.term = parseFrame.i]
    /\ UNCHANGED <<m_options, progVars, objVars>>

\* Lines 212-217: a lone "-".
TooShort ==
    /\ InLoop
    /\ Curr # <<"-", "-">>
    /\ IsSwitch(Curr)
    /\ Len(Curr) < 2
    /\ parseFrame' = ParseFails(parseFrame, "InvalidSwitchError", Curr)
    /\ UNCHANGED <<m_options, progVars, objVars>>

\* Lines 219-240: a long option.
LongSwitch ==
    /\ InLoop
    /\ Curr # <<"-", "-">>
    /\ IsSwitch(Curr)
    /\ Len(Curr) >= 2
    /\ CharAt(Curr, 1) = "-"
    /\ parseFrame' = ParseSwitch(parseFrame, FindLong(Curr))
    /\ UNCHANGED <<m_options, progVars, objVars>>

\* Lines 247-265: one short option.
ShortSwitch ==
    /\ InLoop
    /\ IsSwitch(Curr)
    /\ Len(Curr) = 2
    /\ CharAt(Curr, 1) # "-"
    /\ parseFrame' = ParseSwitch(parseFrame, FindShort(CharAt(Curr, 1)))
    /\ UNCHANGED <<m_options, progVars, objVars>>

\* Lines 266-299: a sequence of short options.
ShortGroup ==
    /\ InLoop
    /\ IsSwitch(Curr)
    /\ Len(Curr) > 2
    /\ CharAt(Curr, 1) # "-"
    /\ parseFrame' = ParseGroup(parseFrame, 1)
    /\ UNCHANGED <<m_options, progVars, objVars>>

\* Lines 301-304: anything else is kept for the caller.
Positional ==
    /\ InLoop
    /\ ~IsSwitch(Curr)
    /\ parseFrame' = NextArgument(
          [parseFrame EXCEPT !.rest = Append(@, Curr),
                             !.taken = Append(@, parseFrame.i)])
    /\ UNCHANGED <<m_options, progVars, objVars>>

\* Lines 307-314: the arguments from i on are appended to rest, which is
\* returned.
ReturnRest ==
    /\ parseFrame.at = "tail"
    /\ LET f == parseFrame
           n == Len(f.args)
           all == f.rest \o SubSeq(f.args, f.i + 1, n)
       IN  parseFrame' =
              [f EXCEPT !.rest = all,
                        !.taken = @ \o [k \in 1..(n - f.i) |-> f.i + k - 1],
                        !.ret = ReturnValue(all),
                        !.at = "returned"]
    /\ UNCHANGED <<m_options, progVars, objVars>>

ParserNext ==
    \/ On
    \/ ParseCall
    \/ EndOfSwitches
    \/ TooShort
    \/ LongSwitch
    \/ ShortSwitch
    \/ ShortGroup
    \/ Positional
    \/ ReturnRest

ParserSpec == Init /\ [][ParserNext]_vars

(***************************************************************************)
(* Vocabulary of the properties.                                           *)
(***************************************************************************)
Scheduled(i) == tpc[i] # "none"

Running(i) == tpc[i] \in {"resolve", "socket", "connect", "returned", "probe"}

Ended(i) == tpc[i] \in {"finished", "threw"}

AllFailed(a) == \A j \in 1..Len(a) : a[j] # "ok"

\* The connection of task i could not be established.
ConnectionFailed(i) == result[i].set /\ ~valid(result[i])

\* Task i failed: no connection, or an exception left its probe loop.
Failed(i) == ConnectionFailed(i) \/ tpc[i] = "threw"

\* The ciphers of method m that task i has probed, in the order probed.
Probed(i, m) ==
    LET s == SelectSeq(outcomes[i], LAMBDA o : o.method = m)
    IN  [j \in 1..Len(s) |-> s[j].cipher]

\* Task i has probed every pair of the table once, in the table's order.
ProbedAll(i) ==
    /\ \A k \in 1..Len(outcomes[i]) : outcomes[i][k].method \in DOMAIN ciphers
    /\ \A m \in DOMAIN ciphers : Probed(i, m) = ciphers[m]

\* The class createAndConnectSocket uses for "no address could be connected".
ConnectionError == "std::runtime_error"

(***************************************************************************)
(* C1: when the first N addresses fail and address N+1 connects,           *)
(* createAndConnectSocket returns a valid Expected holding the socket of   *)
(* address N+1, tries no address after it, and every failed attempt's      *)
(* socket is closed before the next attempt starts: on return the task's   *)
(* only open descriptor is the returned one.                               *)
(***************************************************************************)
C1_FirstSuccessReturned ==
    \A i \in Hosts :
        /\ tpc[i] = "socket" => TaskFds(i) = {}
        /\ valid(result[i]) => tpc[i] \notin {"socket", "connect"}
        /\ (tpc[i] = "returned" /\ valid(addresses[i])) =>
              LET n == Len(attempts[i])
              IN  /\ n >= 1
                  /\ n <= addresses[i].n
                  /\ AllFailed(SubSeq(attempts[i], 1, n - 1))
                  /\ valid(result[i]) <=> attempts[i][n] = "ok"
                  /\ valid(result[i]) =>
                        (result[i].val = <<i, n>> /\ TaskFds(i) = {<<i, n>>})

C1_Witness ==
    \E i \in Hosts :
        /\ tpc[i] = "returned"
        /\ valid(result[i])
        /\ Len(attempts[i]) >= 2
        /\ Len(attempts[i]) < addresses[i].n

(***************************************************************************)
(* C2: when every address of the list has failed, createAndConnectSocket   *)
(* returns a failure of the connection-error class, never a value, every   *)
(* address has been tried and no socket of the task is left open.          *)
(***************************************************************************)
C2_AllFailedGivesConnectionError ==
    \A i \in Hosts :
        (result[i].set /\ valid(addresses[i]) /\ AllFailed(attempts[i])) =>
            /\ ~valid(result[i])
            /\ hasException(result[i], ConnectionError)
            /\ ~hasException(result[i], "AddressError")
            /\ ~hasException(result[i], "SocketError")
            /\ Len(attempts[i]) = addresses[i].n
            /\ TaskFds(i) = {}

C2_Witness ==
    \E i \in Hosts :
        /\ tpc[i] = "returned"
        /\ valid(addresses[i])
        /\ Len(attempts[i]) >= 2
        /\ AllFailed(attempts[i])

(***************************************************************************)
(* C3: main() reaches "Done!" only when every submitted host task has      *)
(* ended: none is still queued or running.                                 *)
(***************************************************************************)
C3_JoinWaitsForAllTasks ==
    pc = "done" => (queue = <<>> /\ \A i \in 1..nhosts : Ended(i))

C3_Witness == pc = "done" /\ nhosts >= 2 /\ \A i \in 1..nhosts : Ended(i)

(***************************************************************************)
(* C4: at most "threads" host tasks are active at the same time.           *)
(***************************************************************************)
C4_AtMostNActive == Cardinality({i \in Hosts : Running(i)}) <= threads

C4_Witness ==
    /\ Cardinality({i \in Hosts : Running(i)}) = threads
    /\ queue # <<>>

(***************************************************************************)
(* C5: a host task is scheduled only when the table holds an entry for     *)
(* every method of ssl_methods; a run whose build failed has returned 2    *)
(* and has scheduled no task.                                              *)
(***************************************************************************)
C5_TableBuiltBeforeScheduling ==
    /\ (pc \in {"enqueue", "join", "done"} \/ \E i \in Hosts : Scheduled(i))
          => (DOMAIN ciphers = ssl_methods /\ toBuild = {})
    /\ (DOMAIN ciphers # ssl_methods /\ pc \notin {"parse", "build"})
          => (pc = "exit" /\ exitCode \in {1, 2})
    /\ pc = "exit" => (exitCode # 0 /\ queue = <<>> /\ \A i \in Hosts : ~Scheduled(i))

C5_Witness ==
    /\ \E i \in Hosts : Scheduled(i)
    /\ \E m \in ssl_methods : Len(ciphers[m]) = 0
    /\ \E m \in ssl_methods : Len(ciphers[m]) >= 2

(***************************************************************************)
(* C6: once a host task is scheduled, no step changes the table: its keys,  *)
(* their iteration order and each method's cipher list stay as built.      *)
(***************************************************************************)
C6_WorkersDoNotMutateTable ==
    [][(\E i \in Hosts : Scheduled(i)) => (ciphers' = ciphers /\ order' = order)]_vars

C6_Witness == \E i \in Hosts : Len(outcomes[i]) >= 2

(***************************************************************************)
(* C7: a context or session that fails to construct for one pair does not  *)
(* abort the host's scan: the task still ends normally, having probed      *)
(* every pair of the table.                                                *)
(***************************************************************************)
C7_ProbeFailureDoesNotAbortScan ==
    \A i \in Hosts :
        (Ended(i) /\ \E k \in 1..Len(outcomes[i]) : ~outcomes[i][k].ok) =>
            /\ tpc[i] = "finished"
            /\ ProbedAll(i)

(***************************************************************************)
(* C8: a host whose connection succeeded ends with exactly one outcome per *)
(* pair of the table, the ciphers of each method in the table's order.     *)
(***************************************************************************)
C8_OneOutcomePerPair ==
    \A i \in Hosts : (Ended(i) /\ valid(result[i])) => ProbedAll(i)

(***************************************************************************)
(* C9: a host whose connection could not be established is reported as     *)
(* failed to connect, and no probe is executed for it.                     *)
(***************************************************************************)
C9_FailedConnectionNoProbe ==
    \A i \in Hosts :
        ConnectionFailed(i) =>
            /\ outcomes[i] = <<>>
            /\ tpc[i] \in {"returned", "finished"}
            /\ (tpc[i] = "finished" => cerr[i] = "Error connecting")

C9_Witness ==
    \E i \in Hosts :
        /\ tpc[i] = "finished"
        /\ ConnectionFailed(i)
        /\ hasException(result[i], ConnectionError)

SocketOwners(f) == {k \in Objs : sock[k].live /\ sock[k].fd = f}

ExpectedOwners(f) ==
    {s \in Objs : ex[s].live /\ ex[s].m_haveValue /\ ex[s].m_value.st = "obj"
                     /\ ex[s].m_value.v = f}

\* Exactly one member of the union holds an object and the flag names it.
OneBranch(x) ==
    IF x.m_haveValue
    THEN x.m_value.st = "obj" /\ x.m_exception.st = "none"
    ELSE x.m_exception.st \in {"obj", "null"} /\ x.m_value.st = "none"

(***************************************************************************)
(* C11: whatever Sockets are constructed, moved, move-assigned, wrapped in *)
(* an Expected and destroyed, close() is never called on a descriptor that *)
(* is not open (so none is closed twice), a descriptor is open exactly     *)
(* while one live Socket owns it, and no two live Sockets own the same.    *)
(***************************************************************************)
C11_DescriptorClosedOnce ==
    \A f \in Fds :
        /\ desc[f] # "misused"
        /\ Cardinality(SocketOwners(f)) + Cardinality(ExpectedOwners(f))
              = IF desc[f] = "open" THEN 1 ELSE 0

C11_Witness ==
    /\ \E f \in Fds : desc[f] = "closed"
    /\ \E f \in Fds : ExpectedOwners(f) # {}
    /\ \E s \in Objs : ex[s].live /\ ~ex[s].m_haveValue
    /\ leaked

(***************************************************************************)
(* C12: when getaddrinfo fails, ResolveHost returns a failure of class     *)
(* AddressError that carries the status; a success of ResolveHost holds at *)
(* least one address, as many as the resolver listed.                      *)
(***************************************************************************)
C12_ResolveFailureIsAddressError ==
    \A i \in Hosts :
        addresses[i].set =>
            /\ addresses[i].gai.status # "0" =>
                  /\ ~valid(addresses[i])
                  /\ hasException(addresses[i], "AddressError")
                  /\ addresses[i].status = addresses[i].gai.status
            /\ valid(addresses[i]) =>
                  /\ addresses[i].gai.status = "0"
                  /\ addresses[i].n >= 1
                  /\ addresses[i].n = addresses[i].gai.n

C12_Witness ==
    \E i \in Hosts :
        /\ tpc[i] = "returned"
        /\ addresses[i].gai.status = "EAI_AGAIN"
        /\ ~valid(addresses[i])

(***************************************************************************)
(* C13: when ResolveHost returns a success it has called freeaddrinfo on   *)
(* the resolver's list exactly once; when it returns a failure the         *)
(* resolver had handed out no list and nothing is left to release.         *)
(***************************************************************************)
C13_ResolverListReleasedOnce ==
    \A i \in Hosts :
        addresses[i].set =>
            /\ valid(addresses[i]) => addresses[i].freed = 1
            /\ ~valid(addresses[i]) =>
                  (addresses[i].gai.n = 0 /\ addresses[i].freed = 0)

C13_Witness ==
    \E i \in Hosts :
        /\ tpc[i] = "returned"
        /\ valid(addresses[i])
        /\ addresses[i].n >= 2
        /\ addresses[i].freed = 1

(***************************************************************************)
(* C14: every submitted host task ends, and the join of the pool returns,  *)
(* even when the network never answers.                                    *)
(***************************************************************************)
C14_EveryTaskCompletes ==
    /\ \A i \in Hosts : (tpc[i] = "queued") ~> Ended(i)
    /\ (pc = "join") ~> (pc = "done")

(***************************************************************************)
(* C15: an Expected built from a value v, by copy or by move, is valid,    *)
(* get() returns v, and hasException<K>() is false for every K; the same   *)
(* holds of the copies of such an Expected and of what it was moved or     *)
(* swapped into.                                                           *)
(***************************************************************************)
C15_ValueRoundTrip ==
    \A s \in Objs :
        origin[s].form = "value" =>
            /\ ex[s].live
            /\ Expected_valid(ex[s])
            /\ Expected_get(ex[s]) = {Returned(origin[s].v)}
            /\ \A K \in StaticTypes : Expected_hasException(ex[s], K) = {FALSE}
            /\ (last.op = "get" /\ last.a = s) =>
                  (~last.threw /\ last.out = Returned(origin[s].v))
            /\ (last.op = "hasException" /\ last.a = s) =>
                  (~last.threw /\ last.out = Answer(FALSE))

C15_Witness ==
    \E s \in Objs :
        /\ origin[s].form = "value"
        /\ last.op = "get"
        /\ last.a = s
        /\ \E t \in Objs : t # s /\ origin[t].form = "value"

(***************************************************************************)
(* C16: an Expected built by fromException from a failure F, in any of the *)
(* three forms, is not valid; hasException<K>() returns, without raising,  *)
(* true for F's class (and its bases); every get(), a repeated one too,    *)
(* raises F's class with F's payload and returns no value.                 *)
(***************************************************************************)
C16_FailureRoundTrip ==
    \A s \in Objs :
        origin[s].form = "failure" =>
            /\ ex[s].live
            /\ ~Expected_valid(ex[s])
            /\ Expected_hasException(ex[s], origin[s].kind) = {TRUE}
            /\ Expected_get(ex[s]) = {Thrown(origin[s].kind, origin[s].payload)}
            /\ (last.op = "get" /\ last.a = s) =>
                  /\ last.threw
                  /\ last.out = Thrown(origin[s].kind, origin[s].payload)
            /\ (last.op = "hasException" /\ last.a = s) =>
                  /\ ~last.threw
                  /\ last.out = Answer(last.K \in Bases(origin[s].kind))

C16_Witness ==
    /\ last.op = "get"
    /\ last.rep
    /\ last.threw
    /\ origin[last.a].form = "failure"
    /\ \E t \in Objs : t # last.a /\ origin[t].form = "failure"
                          /\ origin[t].kind # origin[last.a].kind

(***************************************************************************)
(* C17: a swap that completes leaves in each of the two Expected exactly   *)
(* what the other held before: the same branch, the same value or the same *)
(* exception; this for every combination of states and either call order.  *)
(***************************************************************************)
C17_SwapExchangesStates ==
    [][(last'.op = "swap" /\ ~last'.threw) =>
          /\ ex'[last'.a] = ex[last'.b]
          /\ ex'[last'.b] = ex[last'.a]]_vars

C17_Witness ==
    /\ last.op = "swap"
    /\ ~last.threw
    /\ ~ex[last.a].m_haveValue
    /\ ex[last.a].m_exception.st = "obj"
    /\ ex[last.b].m_haveValue
    /\ ex[last.b].m_value.v \in Values

(***************************************************************************)
(* C18: when the constructor of the moved value raises in the middle of a  *)
(* mixed swap, each of the two Expected still has the branch its flag      *)
(* names fully constructed.                                                *)
(***************************************************************************)
C18_SwapThrowLeavesBothWhole ==
    (last.op = "swap" /\ last.threw) =>
        /\ OneBranch(ex[last.a])
        /\ OneBranch(ex[last.b])

(***************************************************************************)
(* C19: fromCode(fun) returns a valid Expected holding V when fun returns  *)
(* V and V arrives in the Expected; it returns a failure of the raised     *)
(* class when fun raises; nothing raised leaves fromCode.                  *)
(***************************************************************************)
C19_FromCodeCapturesFailure ==
    last.op = "fromCode" =>
        /\ ~last.threw
        /\ ex[last.a].live
        /\ (~last.out.thrown /\ last.K = "") =>
              /\ Expected_valid(ex[last.a])
              /\ Expected_get(ex[last.a]) = {Returned(last.out.v)}
        /\ last.out.thrown =>
              /\ ~Expected_valid(ex[last.a])
              /\ Expected_hasException(ex[last.a], last.out.kind) = {TRUE}
              /\ Expected_get(ex[last.a]) = {last.out}
        /\ last.K = "move raised" =>
              /\ ~Expected_valid(ex[last.a])
              /\ Expected_hasException(ex[last.a], TCtorError) = {TRUE}

C19_Witness ==
    /\ last.op = "fromCode"
    /\ last.out.thrown
    /\ \E s \in Objs : s # last.a /\ ex[s].live /\ ex[s].m_haveValue

(***************************************************************************)
(* C20: every live Expected has exactly one populated branch, named by its *)
(* flag; no destructor runs on a branch that holds no object; and no       *)
(* branch object ends without its destructor.                              *)
(***************************************************************************)
C20_OneBranchReleasedOnce ==
    /\ \A s \in Objs : ex[s].live => OneBranch(ex[s])
    /\ ~badDtor
    /\ ~leaked

(***************************************************************************)
(* C21: copy- or move-constructing an Expected from one whose flag names a *)
(* constructed branch yields the source's state: the same branch, the same *)
(* value or the same exception, and so the same answers of valid(), get()  *)
(* and hasException<K>(); the copy leaves the source as it was; the move   *)
(* leaves the source with its flag and a moved-from value or a null        *)
(* exception_ptr.                                                          *)
(***************************************************************************)
C21_CopyMoveYieldSourceState ==
    [][(last'.op \in {"copy", "move"} /\ OneBranch(ex[last'.b])) =>
          LET d == last'.a
              s == last'.b
          IN  /\ ex'[d].live
              /\ ex'[d].m_haveValue = ex[s].m_haveValue
              /\ ex'[d].m_value = ex[s].m_value
              /\ ex'[d].m_exception = ex[s].m_exception
              /\ Expected_valid(ex'[d]) = Expected_valid(ex[s])
              /\ Expected_get(ex'[d]) = Expected_get(ex[s])
              /\ \A K \in StaticTypes :
                    Expected_hasException(ex'[d], K) = Expected_hasException(ex[s], K)
              /\ last'.op = "copy" => ex'[s] = ex[s]
              /\ last'.op = "move" =>
                    /\ ex'[s].live
                    /\ ex'[s].m_haveValue = ex[s].m_haveValue
                    /\ ex[s].m_haveValue =>
                          /\ ex'[s].m_value = ValueObj(MovedFrom)
                          /\ ex'[s].m_exception = ex[s].m_exception
                    /\ ~ex[s].m_haveValue =>
                          /\ ex'[s].m_exception = NullPtr
                          /\ ex'[s].m_value = ex[s].m_value]_vars

\* An Expected holding a failure has just been moved into another one.
C21_Witness ==
    /\ last.op = "move"
    /\ ~ex[last.a].m_haveValue
    /\ ex[last.a].m_exception.st = "obj"
    /\ ex[last.b].live
    /\ ex[last.b].m_exception = NullPtr
    /\ origin[last.a].form = "failure"

(***************************************************************************)
(* C22: when ResolveHost fails, createAndConnectSocket creates no socket   *)
(* and returns a failure on which hasException<AddressError>() is true.    *)
(***************************************************************************)
C22_ResolutionFailureKeepsKind ==
    \A i \in Hosts :
        (addresses[i].set /\ ~valid(addresses[i]) /\ result[i].set) =>
            /\ attempts[i] = <<>>
            /\ TaskFds(i) = {}
            /\ ~valid(result[i])
            /\ hasException(result[i], "AddressError")

(***************************************************************************)
(* SocketAddress(p) copies *p member by member: the integers become the    *)
(* Endpoint's own, the three pointers still point into the resolver's list *)
(* (the address bytes, the canonical name, the next entry).                *)
(***************************************************************************)
SocketAddress ==
    [own |-> {"ai_flags", "ai_family", "ai_socktype", "ai_protocol", "ai_addrlen"},
     intoList |-> {"ai_addr", "ai_canonname", "ai_next"}]

\* The members Socket(SocketAddress&) and Socket::Connect read.
SocketReads == {"ai_family", "ai_socktype", "ai_protocol"}

ConnectReads == {"ai_addr", "ai_addrlen"}

\* Task i reads, through its Endpoints, memory of a list that freeaddrinfo
\* has already released.
ReadsReleased(i, members) ==
    /\ addresses[i].freed > 0
    /\ members \cap SocketAddress.intoList # {}

\* Task i leaves line 246 (socket) or line 248 (connect) in this step.
Leaves(i, at) == tpc[i] = at /\ tpc'[i] # at

(***************************************************************************)
(* C23: no socket creation and no connect attempt reads, through an        *)
(* Endpoint of the sequence ResolveHost returned, address bytes that have  *)
(* been released.                                                          *)
(***************************************************************************)
C23_AddressBytesOutliveConnect ==
    [][\A i \in Hosts :
          /\ Leaves(i, "socket") => ~ReadsReleased(i, SocketReads)
          /\ Leaves(i, "connect") => ~ReadsReleased(i, ConnectReads)]_vars

(***************************************************************************)
(* Vocabulary of the claims about Parse.                                   *)
(***************************************************************************)
\* The loop is at a sequence of short switches such as "-abc".
AtGroup == InLoop /\ IsSwitch(Curr) /\ Len(Curr) > 2 /\ CharAt(Curr, 1) # "-"

\* The characters of curr after the '-'.
GroupChars == SubSeq(Curr, 2, Len(Curr))

\* The characters of the group that do not name a registered switch
\* without a parameter, by position.
GroupStops ==
    {n \in 1..Len(GroupChars) :
        \/ FindShort(GroupChars[n]) = 0
        \/ HasParameter(m_options[FindShort(GroupChars[n])])}

FirstStop == CHOOSE n \in GroupStops : \A l \in GroupStops : n <= l

\* The callbacks this step has invoked.
NewCalls ==
    SubSeq(parseFrame'.calls, Len(parseFrame.calls) + 1, Len(parseFrame'.calls))

\* Parse has returned a failure of class kind.
ParseFailed(kind) ==
    /\ parseFrame.at = "returned"
    /\ ~parseFrame.ret.valid
    /\ parseFrame.ret.kind = kind

(***************************************************************************)
(* C24: on an argument of more than two characters that starts with one    *)
(* '-', Parse goes through the characters after the '-' once and in order: *)
(* it invokes the callback of each one that names a registered switch      *)
(* without a parameter, stops with InvalidPositionError at the first that  *)
(* names a switch with a parameter and with InvalidSwitchError at the      *)
(* first that names no switch, and goes on to the next argument when all   *)
(* of them name switches without a parameter.                              *)
(***************************************************************************)
C24_GroupExaminesEachCharacter ==
    [][(AtGroup /\ parseFrame' # parseFrame) =>
          LET n == IF GroupStops = {} THEN Len(GroupChars) ELSE FirstStop - 1
          IN  /\ NewCalls = [m \in 1..n |->
                                [opt |-> FindShort(GroupChars[m]), arg |-> <<>>,
                                 from |-> -1]]
              /\ GroupStops = {} =>
                    /\ parseFrame'.at \in {"loop", "tail"}
                    /\ parseFrame'.i = parseFrame.i + 1
              /\ GroupStops # {} =>
                    /\ ParseFailed(IF FindShort(GroupChars[FirstStop]) = 0
                                   THEN "InvalidSwitchError"
                                   ELSE "InvalidPositionError")']_vars

\* Parse has returned the rest of the arguments.
ParseSucceeded == parseFrame.at = "returned" /\ parseFrame.ret.valid

\* The positions of args that were handed to a callback as its parameter.
Consumed ==
    {parseFrame.calls[m].from : m \in 1..Len(parseFrame.calls)} \ {-1}

\* The positions of args whose strings Parse returns.
Taken == {parseFrame.taken[m] : m \in 1..Len(parseFrame.taken)}

(***************************************************************************)
(* C25: a successful Parse returns arguments of args unchanged and in      *)
(* their original order; before the "--" that ends switch processing (or  *)
(* everywhere, when there is none) these are exactly the arguments that    *)
(* do not start with '-' and were not consumed as a switch's parameter;    *)
(* that "--" is not returned and every argument after it is; a consumed    *)
(* argument was passed to the switch's callback and is not returned.       *)
(***************************************************************************)
C25_PositionalsInOrder ==
    ParseSucceeded =>
        LET f == parseFrame
            n == Len(f.args)
            upto == IF f.term >= 0 THEN f.term ELSE n
        IN  /\ f.ret.value = [m \in 1..Len(f.taken) |-> f.args[f.taken[m] + 1]]
            /\ \A m \in 1..(Len(f.taken) - 1) : f.taken[m] < f.taken[m + 1]
            /\ \A k \in 0..(upto - 1) :
                  k \in Taken <=> (~IsSwitch(f.args[k + 1]) /\ k \notin Consumed)
            /\ f.term >= 0 =>
                  /\ f.args[f.term + 1] = <<"-", "-">>
                  /\ f.term \notin Taken
                  /\ \A k \in (f.term + 1)..(n - 1) : k \in Taken
            /\ \A m \in 1..Len(f.calls) :
                  f.calls[m].from >= 0 =>
                      /\ f.calls[m].arg = f.args[f.calls[m].from + 1]
                      /\ f.calls[m].from \notin Taken
                      /\ HasParameter(m_options[f.calls[m].opt])

\* "-t host -- -v": host went to the callback of -t, "--" ended the
\* switches, and "-v" after it is returned.
C25_Witness ==
    /\ ParseSucceeded
    /\ parseFrame.term >= 0
    /\ Consumed # {}
    /\ \E k \in Taken : k > parseFrame.term /\ IsSwitch(parseFrame.args[k + 1])
    /\ \E m \in 1..Len(m_options) : m_options[m].parameterSet

\* The registered switch an argument of the form -x or --name names, 0 for
\* none.
SwitchOf(curr) ==
    IF CharAt(curr, 1) = "-" THEN FindLong(curr) ELSE FindShort(CharAt(curr, 1))

(***************************************************************************)
(* C26: a switch on which SetParameter was never called takes no           *)
(* parameter: its callback is invoked without an argument of args, and     *)
(* Parse never fails with MissingArgumentError on it.                      *)
(***************************************************************************)
C26_UnsetSwitchTakesNoParameter ==
    /\ \A m \in 1..Len(parseFrame.calls) :
          ~m_options[parseFrame.calls[m].opt].parameterSet =>
              /\ parseFrame.calls[m].from = -1
              /\ parseFrame.calls[m].arg = <<>>
    /\ ParseFailed("MissingArgumentError") =>
          m_options[SwitchOf(parseFrame.ret.what)].parameterSet

=============================================================================
